---- MODULE Spec2Model ----
(***************************************************************************)
(* A model of fastspring/api.py: the FastSpringAPI client, its six public  *)
(* operations and the internal request helper.                             *)
(*                                                                         *)
(* Python strings are sequences of tokens (one-element strings), so that   *)
(* formatting, URL joining, serialization and parsing are computed, not    *)
(* assumed.  Python values that the code tests for truthiness are tagged   *)
(* records (PyNone, PyStr, PyBool, PyDict).                                *)
(***************************************************************************)
EXTENDS Integers, Sequences, FiniteSets, TLC

VARIABLES
    self,       \* the client: username, password, company, api_base_url
    pc,         \* per thread: position inside the current call
    call,       \* per thread: the operation called and its arguments
    req,        \* per thread: the arguments handed to _request
    sent,       \* per thread: the HTTP requests issued by the current call
    response,   \* per thread: the response object of requests.request
    ret,        \* per thread: the 4-tuple returned by _request
    result      \* per thread: how the last call ended, and whether the parser ran

vars == <<self, pc, call, req, sent, response, ret, result>>

----------------------------------------------------------------------------
(* Bounds of the model *)

\* longest response body, in tokens
MaxContent == 3
\* longest tail (after the host) of a configured base URL, in tokens
MaxBaseTail == 3

BoundedSeq(S, n) == UNION {[1..k -> S] : k \in 0..n}

Threads == {"t1", "t2"}

----------------------------------------------------------------------------
(* Python values *)

NoVal == [type |-> "unset"]
PyNone == [type |-> "NoneType"]
PyStr(s) == [type |-> "str", s |-> s]
PyBool(b) == [type |-> "bool", b |-> b]
PyDict(items) == [type |-> "dict", items |-> items]

\* Python truth value testing: None, False, '' and {} are false
Truthy(v) ==
    CASE v.type = "NoneType" -> FALSE
      [] v.type = "bool" -> v.b
      [] v.type = "str" -> v.s # <<>>
      [] v.type = "dict" -> v.items # <<>>
      [] OTHER -> TRUE

\* '%s' % v
Format(v) ==
    CASE v.type = "str" -> v.s
      [] v.type = "bool" -> IF v.b THEN <<"True">> ELSE <<"False">>
      [] v.type = "NoneType" -> <<"None">>
      [] OTHER -> <<"{...}">>

----------------------------------------------------------------------------
(* xmltodict, as the client uses it *)

RECURSIVE Emit(_)
\* one element per key: <k>text</k>, <k></k> for None, children for a mapping
Emit(items) ==
    IF items = <<>> THEN <<>>
    ELSE LET k == Head(items).k
             v == Head(items).v
             inner == CASE v.type = "dict" -> Emit(v.items)
                        [] v.type = "str" -> v.s
                        [] OTHER -> <<>>
         IN  <<"<" \o k \o ">">> \o inner \o <<"</" \o k \o ">">> \o Emit(Tail(items))

\* xmltodict.unparse: the XML declaration, then the document
unparse(data) == PyStr(<<"<?xml?>">> \o Emit(data.items))

RECURSIVE Scan(_, _, _)
\* expat over the tokens "<r>", "</r>" and "t": one root element, properly
\* nested, no text outside it
Scan(toks, i, d) ==
    IF i > Len(toks) THEN d = 0 /\ Len(toks) > 0
    ELSE CASE toks[i] = "<r>" -> (d > 0 \/ i = 1) /\ Scan(toks, i + 1, d + 1)
           [] toks[i] = "</r>" -> d > 0 /\ (d > 1 \/ i = Len(toks)) /\ Scan(toks, i + 1, d - 1)
           [] OTHER -> d > 0 /\ Scan(toks, i + 1, d)

WellFormed(content) == Scan(content, 1, 0)

\* the mapping xmltodict.parse builds from a well-formed document
Parsed(content) == [type |-> "dict", doc |-> content]

Return(v) == [kind |-> "return", value |-> v]
Raise(e) == [kind |-> "raise", exc |-> e]

\* return xmltodict.parse(content): the mapping, or expat's error propagates
parse(content) ==
    [parsed |-> TRUE,
     outcome |-> IF WellFormed(content) THEN Return(Parsed(content))
                 ELSE Raise([type |-> "ExpatError"])]

----------------------------------------------------------------------------
(* FastSpringException *)

FastSpringException(detail, status, message, reason) ==
    [type |-> "FastSpringException", detail |-> detail, status |-> status,
     message |-> message, reason |-> reason]

raise_error(detail, status, message, reason) ==
    [parsed |-> FALSE,
     outcome |-> Raise(FastSpringException(detail, status, message, reason))]

return_value(v) == [parsed |-> FALSE, outcome |-> Return(v)]

----------------------------------------------------------------------------
(* urlparse, on token sequences.  The tokens are "/", a scheme ("https:")  *)
(* and names; no token holds "?", "#" or ";", so query, fragment and       *)
(* params are always empty.                                                *)

Schemes == {"https:", "http:"}

\* index of the first "/" of s at or after i, Len(s) + 1 when there is none
RECURSIVE FirstSlash(_, _)
FirstSlash(s, i) ==
    IF i > Len(s) \/ s[i] = "/" THEN i ELSE FirstSlash(s, i + 1)

\* index of the last "/" of s at or before i, 0 when there is none
RECURSIVE LastSlash(_, _)
LastSlash(s, i) ==
    IF i = 0 \/ s[i] = "/" THEN i ELSE LastSlash(s, i - 1)

\* urlparse.urlsplit(url, scheme): scheme, netloc and path
urlsplit(url, default) ==
    LET hasScheme == Len(url) > 0 /\ url[1] \in Schemes
        scheme == IF hasScheme THEN url[1] ELSE default
        rest == IF hasScheme THEN Tail(url) ELSE url
        hasNetloc == Len(rest) >= 2 /\ rest[1] = "/" /\ rest[2] = "/"
        stop == FirstSlash(rest, 3)
    IN  [scheme |-> scheme,
         netloc |-> IF hasNetloc THEN SubSeq(rest, 3, stop - 1) ELSE <<>>,
         path |-> IF hasNetloc THEN SubSeq(rest, stop, Len(rest)) ELSE rest]

\* urlparse.urlunsplit
urlunsplit(scheme, netloc, path) ==
    LET rooted == IF path # <<>> /\ path[1] # "/" THEN <<"/">> \o path ELSE path
        withNetloc ==
            IF netloc # <<>>
               \/ (scheme # <<>> /\ ~(Len(path) >= 2 /\ path[1] = "/" /\ path[2] = "/"))
            THEN <<"/", "/">> \o netloc \o rooted
            ELSE path
    IN  scheme \o withNetloc

\* urlparse.urljoin(base, url)
urljoin(base, url) ==
    IF base = <<>> THEN url
    ELSE IF url = <<>> THEN base
    ELSE LET b == urlsplit(base, "")
             u == urlsplit(url, b.scheme)
             sch == IF u.scheme = "" THEN <<>> ELSE <<u.scheme>>
         IN  IF u.scheme # b.scheme \/ u.scheme \notin Schemes THEN url
             ELSE IF u.netloc # <<>> THEN urlunsplit(sch, u.netloc, u.path)
             ELSE IF u.path # <<>> /\ u.path[1] = "/"
                  THEN urlunsplit(sch, b.netloc, u.path)
             ELSE urlunsplit(sch, b.netloc,
                             SubSeq(b.path, 1, LastSlash(b.path, Len(b.path))) \o u.path)

----------------------------------------------------------------------------
(* FastSpringAPI._request *)

\* body = xmltodict.unparse(data) if data and not skip_unparse else data
RequestBody(data, skip_unparse) ==
    IF Truthy(data) /\ ~skip_unparse THEN unparse(data) ELSE data

\* mutant: the leading slash of the format string is missing
RequestPathRelative(company, path) ==
    <<"company", "/", company, "/">> \o path

\* request_path = '/company/%s/%s' % (self.company, path)
RequestPath(company, path) ==
    <<"/", "company", "/", company, "/">> \o path

\* url = urlparse.urljoin(self.api_base_url, request_path)
RequestUrl(client, path) ==
    urljoin(client.api_base_url, RequestPath(client.company, path))

\* the call of requests.request
HttpRequest(client, r) ==
    [method |-> r.method,
     url |-> RequestUrl(client, r.path),
     headers |-> <<"Content-type", "application/xml">>,
     auth |-> <<client.username, client.password>>,
     data |-> RequestBody(r.data, r.skip_unparse)]

\* return content, status_code, message, reason
RequestReturn(resp) ==
    [content |-> resp.content, status |-> resp.status_code,
     message |-> "", reason |-> resp.reason]

\* mutant: a response other than 200 is tried again
AfterResponseRetry(resp) ==
    IF resp.status_code # 200 THEN "send" ELSE "interpret"

\* where _request goes once requests.request has returned: it returns
AfterResponse(resp) == "interpret"

----------------------------------------------------------------------------
(* The public operations: the arguments each hands to _request, and what   *)
(* each makes of the 4-tuple it gets back.                                 *)

Args(method, path, data, skip_unparse) ==
    [method |-> method, path |-> path, data |-> data, skip_unparse |-> skip_unparse]

get_order_request(reference) ==
    Args("GET", <<"order", "/", reference>>, PyNone, FALSE)

get_order(r) ==
    IF r.content # <<>> THEN parse(r.content)
    ELSE raise_error("Could not get order information", r.status, r.message, r.reason)

generate_coupon_request(prefix) ==
    Args("POST", <<"coupon", "/", prefix, "/", "generate">>, PyNone, FALSE)

generate_coupon(r) ==
    IF r.content # <<>> THEN parse(r.content)
    ELSE raise_error("Could not generate coupon", r.status, r.message, r.reason)

get_subscription_request(reference) ==
    Args("GET", <<"subscription", "/", reference>>, PyNone, FALSE)

\* mutant: an empty body raises, as in get_order
get_subscription_checked(r) ==
    IF r.content # <<>> THEN parse(r.content)
    ELSE raise_error("Could not get subscription", r.status, r.message, r.reason)

get_subscription(r) == parse(r.content)

update_subscription_request(reference, subscription_data) ==
    Args("PUT", <<"subscription", "/", reference>>,
         PyDict(<<[k |-> "subscription", v |-> subscription_data]>>), FALSE)

\* mutant: success tested on the body, as get_order does
update_subscription_by_content(r) ==
    IF r.content # <<>> THEN parse(r.content)
    ELSE raise_error("Could not update subscription", r.status, r.message, r.reason)

update_subscription(r) ==
    IF r.status # 200
    THEN raise_error("Could not update subscription", r.status, r.message, r.reason)
    ELSE parse(r.content)

cancel_subscription_request(reference) ==
    Args("DELETE", <<"subscription", "/", reference>>, PyNone, FALSE)

cancel_subscription(r) ==
    IF r.content # <<>> THEN parse(r.content)
    ELSE IF ~(r.status = 200)
    THEN raise_error("Could not cancel subscription", r.status, r.message, r.reason)
    ELSE return_value(PyNone)

\* mutant: the test is "simulate is not None"
renew_data_if_given(simulate) ==
    IF simulate # PyNone THEN PyStr(<<"simulate=">> \o Format(simulate)) ELSE PyNone

\* data = 'simulate=%s' % simulate if simulate else None
renew_data(simulate) ==
    IF Truthy(simulate) THEN PyStr(<<"simulate=">> \o Format(simulate)) ELSE PyNone

renew_subscription_request(reference, simulate) ==
    Args("POST", <<"subscription", "/", reference, "/", "renew">>,
         renew_data(simulate), TRUE)

PyTuple(a, b, c, d) == [type |-> "tuple", items |-> <<a, b, c, d>>]

\* mutant: a failed renewal raises, as the other operations do
renew_subscription_raising(r) ==
    IF r.status = 200 THEN return_value(PyTuple(TRUE, r.status, r.message, r.reason))
    ELSE raise_error("Could not renew subscription", r.status, r.message, r.reason)

renew_subscription(r) ==
    IF r.status = 200 THEN return_value(PyTuple(TRUE, r.status, r.message, r.reason))
    ELSE return_value(PyTuple(FALSE, r.status, r.message, r.reason))

Operations ==
    {"get_order", "generate_coupon", "get_subscription", "update_subscription",
     "cancel_subscription", "renew_subscription"}

\* the _request call of operation c.op with arguments c.ref and c.arg
RequestOf(c) ==
    CASE c.op = "get_order" -> get_order_request(c.ref)
      [] c.op = "generate_coupon" -> generate_coupon_request(c.ref)
      [] c.op = "get_subscription" -> get_subscription_request(c.ref)
      [] c.op = "update_subscription" -> update_subscription_request(c.ref, c.arg)
      [] c.op = "cancel_subscription" -> cancel_subscription_request(c.ref)
      [] c.op = "renew_subscription" -> renew_subscription_request(c.ref, c.arg)

\* what operation op makes of _request's 4-tuple r
Interpret(op, r) ==
    CASE op = "get_order" -> get_order(r)
      [] op = "generate_coupon" -> generate_coupon(r)
      [] op = "get_subscription" -> get_subscription(r)
      [] op = "update_subscription" -> update_subscription(r)
      [] op = "cancel_subscription" -> cancel_subscription(r)
      [] op = "renew_subscription" -> renew_subscription(r)

----------------------------------------------------------------------------
(* Inputs *)

References == {"R1"}

\* subscription_data of update_subscription
DataValues ==
    {PyNone, PyStr(<<>>), PyStr(<<"x">>), PyDict(<<>>),
     PyDict(<<[k |-> "status", v |-> PyStr(<<"active">>)]>>),
     PyDict(<<[k |-> "a", v |-> PyDict(<<[k |-> "b", v |-> PyNone]>>)]>>)}

\* simulate of renew_subscription; None is also its default
SimulateValues ==
    {PyNone, PyBool(FALSE), PyBool(TRUE), PyStr(<<>>), PyStr(<<"success">>),
     PyStr(<<"failure">>)}

Calls ==
    {[op |-> o, ref |-> r, arg |-> PyNone] :
        o \in {"get_order", "generate_coupon", "get_subscription", "cancel_subscription"},
        r \in References}
    \cup {[op |-> "update_subscription", ref |-> r, arg |-> d] :
            r \in References, d \in DataValues}
    \cup {[op |-> "renew_subscription", ref |-> r, arg |-> v] :
            r \in References, v \in SimulateValues}

Statuses == {200, 201, 404}
Reasons == {"OK", "Not Found"}

\* every response with a body of at most MaxContent tokens
Responses ==
    [content : BoundedSeq({"<r>", "</r>", "t"}, MaxContent),
     status_code : Statuses, reason : Reasons]

\* an empty, a well-formed and a malformed body
FewResponses ==
    [content : {<<>>, <<"<r>", "t", "</r>">>, <<"t">>},
     status_code : {200, 404}, reason : Reasons]

\* api_base_url='https://api.fastspring.com'
DefaultBaseUrl == <<"https:", "/", "/", "api.fastspring.com">>

DefaultClient ==
    [username |-> "user", password |-> "secret", company |-> "acme",
     api_base_url |-> DefaultBaseUrl]

\* base URLs with any tail of at most MaxBaseTail tokens after the host:
\* trailing slashes, a path of their own
BaseUrls == {DefaultBaseUrl \o tail : tail \in BoundedSeq({"/", "v1"}, MaxBaseTail)}

Clients ==
    [username : {"user"}, password : {"secret"}, company : {"acme", "initech"},
     api_base_url : BaseUrls]

----------------------------------------------------------------------------
(* The state machine *)

Unset == [t \in Threads |-> NoVal]

\* FastSpringAPI.__init__ with one of the clients C; no call has begun
InitWith(C) ==
    /\ self \in C
    /\ pc = [t \in Threads |-> "idle"]
    /\ call = Unset
    /\ req = Unset
    /\ sent = [t \in Threads |-> <<>>]
    /\ response = Unset
    /\ ret = Unset
    /\ result = Unset

\* thread t calls a public operation, which calls _request
Call(t) ==
    /\ pc[t] = "idle"
    /\ \E c \in Calls :
        /\ call' = [call EXCEPT ![t] = c]
        /\ req' = [req EXCEPT ![t] = RequestOf(c)]
    /\ pc' = [pc EXCEPT ![t] = "send"]
    /\ result' = [result EXCEPT ![t] = NoVal]
    /\ UNCHANGED <<self, sent, response, ret>>

\* _request builds body and url and hands them to requests.request
Send(t) ==
    /\ pc[t] = "send"
    /\ sent' = [sent EXCEPT ![t] = Append(@, HttpRequest(self, req[t]))]
    /\ pc' = [pc EXCEPT ![t] = "wait"]
    /\ UNCHANGED <<self, call, req, response, ret, result>>

\* mutant: the 4-tuple is kept in one place shared by the calls in progress
ReceiveShared(t, R) ==
    /\ pc[t] = "wait"
    /\ \E resp \in R :
        /\ response' = [response EXCEPT ![t] = resp]
        /\ ret' = [u \in Threads |-> IF pc[u] \in {"wait", "interpret"}
                                     THEN RequestReturn(resp) ELSE ret[u]]
        /\ pc' = [pc EXCEPT ![t] = AfterResponse(resp)]
    /\ UNCHANGED <<self, call, req, sent, result>>

\* requests.request returns one of the responses R; _request returns its 4-tuple
Receive(t, R) ==
    /\ pc[t] = "wait"
    /\ \E resp \in R :
        /\ response' = [response EXCEPT ![t] = resp]
        /\ ret' = [ret EXCEPT ![t] = RequestReturn(resp)]
        /\ pc' = [pc EXCEPT ![t] = AfterResponse(resp)]
    /\ UNCHANGED <<self, call, req, sent, result>>

\* the operation tests the 4-tuple and returns or raises
Finish(t) ==
    /\ pc[t] = "interpret"
    /\ result' = [result EXCEPT ![t] = Interpret(call[t].op, ret[t])]
    /\ pc' = [pc EXCEPT ![t] = "done"]
    /\ UNCHANGED <<self, call, req, sent, response, ret>>

\* the call is over: its frame is gone, the caller keeps the outcome
Forget(t) ==
    /\ pc[t] = "done"
    /\ pc' = [pc EXCEPT ![t] = "idle"]
    /\ call' = [call EXCEPT ![t] = NoVal]
    /\ req' = [req EXCEPT ![t] = NoVal]
    /\ sent' = [sent EXCEPT ![t] = <<>>]
    /\ response' = [response EXCEPT ![t] = NoVal]
    /\ ret' = [ret EXCEPT ![t] = NoVal]
    /\ UNCHANGED <<self, result>>

\* one caller, the default client, every response
Init == InitWith({DefaultClient})

Next ==
    \/ Call("t1")
    \/ Send("t1")
    \/ Receive("t1", Responses)
    \/ Finish("t1")
    \/ Forget("t1")

Spec == Init /\ [][Next]_vars

\* one caller, every client configuration
InitUrl == InitWith(Clients)

NextUrl ==
    \/ Call("t1")
    \/ Send("t1")
    \/ Receive("t1", FewResponses)
    \/ Finish("t1")
    \/ Forget("t1")

SpecUrl == InitUrl /\ [][NextUrl]_vars

\* several threads calling on one client, their steps interleaved
InitConc == InitWith({DefaultClient})

NextConc ==
    \E t \in Threads :
        \/ Call(t)
        \/ Send(t)
        \/ Receive(t, FewResponses)
        \/ Finish(t)
        \/ Forget(t)

SpecConc == InitConc /\ [][NextConc]_vars

----------------------------------------------------------------------------
(* Properties *)

Done(t, op) == pc[t] = "done" /\ call[t].op = op

IsFastSpringException(o, resp) ==
    /\ o.kind = "raise"
    /\ o.exc.type = "FastSpringException"
    /\ o.exc.status = resp.status_code
    /\ o.exc.message = ""
    /\ o.exc.reason = resp.reason

IsParsedMapping(o, resp) == o = Return(Parsed(resp.content))

\* C1: every call of every operation ends either returning a parsed mapping
\* (renew_subscription: its 4-tuple) or raising FastSpringException.
C1_MappingOrOperationError ==
    \A t \in Threads : pc[t] = "done" =>
        LET o == result[t].outcome
        IN  \/ /\ o.kind = "return"
               /\ o.value.type =
                     IF call[t].op = "renew_subscription" THEN "tuple" ELSE "dict"
            \/ /\ o.kind = "raise"
               /\ o.exc.type = "FastSpringException"

\* C2: renew_subscription never raises: it returns (status = 200, status, "",
\* reason) of its response, and does not look at the body.
C2_RenewReturnsTuple ==
    \A t \in Threads : Done(t, "renew_subscription") =>
        /\ result[t].outcome =
              Return(PyTuple(response[t].status_code = 200, response[t].status_code,
                             "", response[t].reason))
        /\ ~result[t].parsed

C2_Witness ==
    /\ Done("t1", "renew_subscription")
    /\ response["t1"].status_code = 404
    /\ response["t1"].content = <<"t">>
    /\ result["t1"].outcome.value.items[1] = FALSE

\* C3: cancel_subscription returns the parsed mapping for a non-empty body,
\* returns nothing for an empty body with status 200, and raises
\* FastSpringException(status, reason) for an empty body otherwise.
C3_CancelOutcome ==
    \A t \in Threads : Done(t, "cancel_subscription") =>
        LET resp == response[t]
            o == result[t].outcome
        IN  /\ resp.content # <<>> => IsParsedMapping(o, resp)
            /\ resp.content = <<>> /\ resp.status_code = 200 => o = Return(PyNone)
            /\ resp.content = <<>> /\ resp.status_code # 200
                  => IsFastSpringException(o, resp)

\* C4: update_subscription returns the parsed mapping for status 200 and a
\* well-formed body; for any other status it raises FastSpringException with
\* that status and reason and an empty message, without parsing the body.
C4_UpdateOutcome ==
    \A t \in Threads : Done(t, "update_subscription") =>
        LET resp == response[t]
            o == result[t].outcome
        IN  /\ resp.status_code = 200 /\ WellFormed(resp.content)
                  => IsParsedMapping(o, resp)
            /\ resp.status_code # 200
                  => IsFastSpringException(o, resp) /\ ~result[t].parsed

C4_Witness ==
    /\ Done("t1", "update_subscription")
    /\ response["t1"].status_code = 404
    /\ WellFormed(response["t1"].content)
    /\ result["t1"].outcome.kind = "raise"

\* C5: get_order and generate_coupon return the parsed mapping exactly when
\* the body is non-empty, whatever the status, and raise
\* FastSpringException(status, "", reason) when it is empty.
C5_SucceedIffBody ==
    \A t \in Threads : Done(t, "get_order") \/ Done(t, "generate_coupon") =>
        LET resp == response[t]
            o == result[t].outcome
        IN  /\ resp.content # <<>> => IsParsedMapping(o, resp)
            /\ resp.content = <<>> => IsFastSpringException(o, resp)

\* C6: a call issues exactly one HTTP request, never a second one, and its
\* outcome is decided from that request's response.
C6_OneRequestPerCall ==
    \A t \in Threads :
        /\ pc[t] \in {"idle", "send"} => Len(sent[t]) = 0
        /\ pc[t] \in {"wait", "interpret", "done"} => Len(sent[t]) = 1
        /\ pc[t] = "done"
              => result[t] = Interpret(call[t].op, RequestReturn(response[t]))

C6_Witness ==
    /\ Done("t1", "get_order")
    /\ response["t1"].status_code = 404
    /\ response["t1"].content = <<>>
    /\ Len(sent["t1"]) = 1

\* the operation's path template filled with its argument
Resource(c) ==
    CASE c.op = "get_order" -> <<"order", "/", c.ref>>
      [] c.op = "generate_coupon" -> <<"coupon", "/", c.ref, "/", "generate">>
      [] c.op = "renew_subscription" -> <<"subscription", "/", c.ref, "/", "renew">>
      [] OTHER -> <<"subscription", "/", c.ref>>

\* C7: the path of every outbound URL is /company/{tenant}/{resource},
\* whatever follows the host in the configured base URL.
C7_OutboundPath ==
    \A t \in Threads : \A i \in DOMAIN sent[t] :
        LET u == urlsplit(sent[t][i].url, "")
        IN  u.path = <<"/", "company", "/", self.company, "/">> \o Resource(call[t])

C7_Witness ==
    /\ self.api_base_url = DefaultBaseUrl \o <<"/", "v1", "/">>
    /\ self.company = "initech"
    /\ pc["t1"] = "wait"
    /\ call["t1"].op = "generate_coupon"
    /\ Len(sent["t1"]) = 1

\* C8: with calls of several threads interleaved on one client, each call
\* ends as its own arguments and its own response decide, its request is the
\* one its own arguments decide, and the client is never changed.
C8_CallsIndependent ==
    /\ self = DefaultClient
    /\ \A t \in Threads :
        /\ pc[t] \in {"wait", "interpret", "done"}
              => sent[t] = <<HttpRequest(DefaultClient, RequestOf(call[t]))>>
        /\ pc[t] = "done"
              => result[t] = Interpret(call[t].op, RequestReturn(response[t]))

C8_Witness ==
    /\ pc["t1"] = "done"
    /\ pc["t2"] = "interpret"
    /\ call["t1"] = call["t2"]
    /\ response["t1"].content = <<>>
    /\ response["t2"].content # <<>>

BodyOf(c, provided) ==
    CASE c.op = "update_subscription"
            -> unparse(PyDict(<<[k |-> "subscription", v |-> c.arg]>>))
      [] c.op = "renew_subscription"
            -> IF provided THEN PyStr(<<"simulate=">> \o Format(c.arg)) ELSE PyNone
      [] OTHER -> PyNone

\* C10 as stated: renew_subscription sends simulate=<value> for every value
\* given for simulate, and no body only when none is given.
C10_BodyForEveryProvidedValue ==
    \A t \in Threads : \A i \in DOMAIN sent[t] :
        sent[t][i].data = BodyOf(call[t], call[t].arg # PyNone)

\* C10: the body is fixed by the operation: none for get_order,
\* generate_coupon, get_subscription and cancel_subscription; the
\* serialization of {subscription: data} for update_subscription; for
\* renew_subscription the raw string simulate=<value> when simulate is true
\* in Python's sense, and none when it is None, False or empty.
C10_BodyByOperation ==
    \A t \in Threads : \A i \in DOMAIN sent[t] :
        /\ sent[t][i].data = BodyOf(call[t], Truthy(call[t].arg))
        /\ call[t].op = "update_subscription"
              => Head(sent[t][i].data.s) = "<?xml?>"
        /\ call[t].op = "renew_subscription" /\ Truthy(call[t].arg)
              => Head(sent[t][i].data.s) = "simulate="

C10_Witness ==
    /\ pc["t1"] = "wait"
    /\ call["t1"].op = "renew_subscription"
    /\ call["t1"].arg = PyBool(FALSE)
    /\ sent["t1"][1].data = PyNone

====
